---- MODULE Spec2Model ----
(***************************************************************************)
(* Model of torch/_inductor/comms.py: the communication/computation        *)
(* overlap scheduler (reorder_computation_for_overlap), its helpers        *)
(* (get_ancestors, get_descendants, decide_global_ordering_comms) and the  *)
(* two normalisation passes (sink_waits, raise_comms).                     *)
(*                                                                         *)
(* A scheduler node is a number; its stable name (get_name) orders as the  *)
(* number does, so tuple_sorted is ascending numeric order.  The input     *)
(* list snodes is an arbitrary arrangement of the nodes, independent of    *)
(* the name order and of the dependency edges.                             *)
(***************************************************************************)
EXTENDS Integers, Sequences, FiniteSets, TLC

\* ------------------------------------------------------------------ bounds
MaxNodes == 3
MaxCost == 2

\* the largest input of the calls that hold one communication node, or two
\* and more in name order
MaxBatchNodes == 4

\* the largest runtime cost where the arithmetic of priority 2 is checked
MaxRuntime == 3

\* the largest input where the order of the candidates of priority 2 is
\* checked
MaxCandidateNodes == 5

\* ------------------------------------------------------------------- state
VARIABLES
  snodes,        \* the input list handed to the operation
  kind,          \* node -> "compute" | "comm" | "wait"  (isinstance tests)
  edges,         \* <<a, b>>: a in b.inverse_users, b in a.node_users
  cost,          \* node -> get_runtime_snode(node)
  weak_deps,     \* node -> sequence of names given to add_mutation_dep
  pc,            \* position of the running operation
  op,            \* the operation called
  arg,           \* its argument
  ret,           \* its outcome
  \* locals of reorder_computation_for_overlap
  comm_nodes, comm_ancestors, comm_descendants,
  indeg, free_nodes, unused_nodes, result,
  idx, rolled_over_compute, is_comm_blocking,
  total_cost, comm_cost, group1_cost, overlappable_nodes,
  \* locals of add_all_nodes
  phase,         \* which call of add_all_nodes is running
  all_nodes, pass, progress,
  \* the environment and the standard output
  debug,         \* os.environ.get("INDUCTOR_COMM_DEBUG") == "1"
  stdout         \* the functions that have written to the output so far

graphVars == <<snodes, kind, edges, cost, weak_deps, debug>>

callVars == <<pc, op, arg, ret>>

setupVars == <<comm_nodes, comm_ancestors, comm_descendants>>

poolVars == <<indeg, free_nodes, unused_nodes, result>>

loopVars == <<idx, rolled_over_compute, is_comm_blocking, total_cost, comm_cost, group1_cost, overlappable_nodes>>

batchVars == <<phase, all_nodes, pass, progress>>

schedVars == <<setupVars, poolVars, loopVars, batchVars>>

vars == <<graphVars, callVars, schedVars, stdout>>

Kinds == {"compute", "comm", "wait"}

\* the value of arg before any call
NoNode == <<>>

\* ---------------------------------------------------------------- sequences
Range(s) == {s[i] : i \in DOMAIN s}

IsInjective(s) == \A i, j \in DOMAIN s : s[i] = s[j] => i = j

\* All arrangements of the set S as a list
Perms(S) == {s \in [1..Cardinality(S) -> S] : Range(s) = S}

\* index of x in s (s.index(x)); 0 when absent
IndexOf(s, x) == IF x \in Range(s) THEN CHOOSE i \in DOMAIN s : s[i] = x /\ \A j \in 1..(i-1) : s[j] # x ELSE 0

Min(S) == CHOOSE x \in S : \A y \in S : x <= y

RECURSIVE SortedSeq(_)
SortedSeq(S) == IF S = {} THEN <<>> ELSE <<Min(S)>> \o SortedSeq(S \ {Min(S)})

\* tuple_sorted(x): the elements of x in ascending name order
tuple_sorted(S) == SortedSeq(S)

Reverse(s) == [i \in 1..Len(s) |-> s[Len(s) + 1 - i]]

RECURSIVE SumOver(_, _)
SumOver(S, f) == IF S = {} THEN 0 ELSE LET x == CHOOSE y \in S : TRUE IN f[x] + SumOver(S \ {x}, f)

\* --------------------------------------------------------------- the graph
Nodes == Range(snodes)

inverse_users(n) == {e[1] : e \in {d \in edges : d[2] = n}}

node_users(n) == {e[2] : e \in {d \in edges : d[1] = n}}

IsComm(n) == kind[n] = "comm"

IsWait(n) == kind[n] = "wait"

\* R composed with itself, added to R
Squared(R) == R \cup {<<p[1], q[2]>> : <<p, q>> \in {<<p, q>> \in R \X R : p[2] = q[1]}}

RECURSIVE Closure(_, _)
Closure(R, k) == IF k = 0 THEN R ELSE Closure(Squared(R), k - 1)

\* the transitive closure of the edge relation E: <<a, b>> when one or more
\* edges lead from a to b (MaxNodes + 1 squarings cover every walk needed)
TransitiveClosure(E) == Closure(E, MaxNodes + 1)

Acyclic(E) == \A p \in TransitiveClosure(E) : p[1] # p[2]

\* the dependency graphs over the nodes 1..n
Pairs(n) == {p \in (1..n) \X (1..n) : p[1] # p[2]}

Dags(n) == {E \in SUBSET Pairs(n) : Acyclic(E)}

\* ------------------------------------------------ get_ancestors/descendants
RECURSIVE AncestorsLoop(_, _)
AncestorsLoop(cur_nodes, ancestors) ==
  IF cur_nodes = {} THEN ancestors
  ELSE LET new_nodes == (UNION {inverse_users(n) : n \in cur_nodes}) \ ancestors
       IN AncestorsLoop(new_nodes, ancestors \cup new_nodes)

\* mutant: the traversal stops after the first level
get_ancestors_one_level(node) == inverse_users(node)

get_ancestors(node) == AncestorsLoop({node}, {})

RECURSIVE DescendantsLoop(_, _)
DescendantsLoop(cur_nodes, descendants) ==
  IF cur_nodes = {} THEN descendants
  ELSE LET new_nodes == (UNION {node_users(n) : n \in cur_nodes}) \ descendants
       IN DescendantsLoop(new_nodes, descendants \cup new_nodes)

get_descendants(node) == DescendantsLoop({node}, {})

\* ------------------------------------------ decide_global_ordering_comms
\* comm_nodes = [n for n in nodes if isinstance(n.node, ir.CollectiveKernel)]
CommNodesOf(nodes) == SelectSeq(nodes, IsComm)

\* BaseSchedulerNode.add_mutation_dep(WeakDep(name)): the node records the
\* dependency and gains the named node as a predecessor
AddMutationDep(g, n, dep) ==
  [weak_deps |-> [g.weak_deps EXCEPT ![n] = Append(@, dep)],
   edges |-> g.edges \cup {<<dep, n>>}]

\* for i in range(1, len(comm_nodes)): comm_nodes[i].add_mutation_dep(...)
\* (Python indices i and i - 1 are positions i + 1 and i of the list here)
RECURSIVE OrderingLoop(_, _, _)
OrderingLoop(comms, i, g) ==
  IF i >= Len(comms) THEN g
  ELSE OrderingLoop(comms, i + 1, AddMutationDep(g, comms[i + 1], comms[i]))

\* mutant: the loop starts at range(0, ...), so that comm_nodes[0] is given a
\* dependency on comm_nodes[-1]
decide_global_ordering_comms_from_zero(nodes, g) ==
  LET comms == CommNodesOf(nodes)
  IN IF Len(comms) = 0 THEN g
     ELSE OrderingLoop(comms, 1, AddMutationDep(g, comms[1], comms[Len(comms)]))

decide_global_ordering_comms(nodes, g) == OrderingLoop(CommNodesOf(nodes), 1, g)

\* ----------------------------------------------------------------- sink_waits
\* a local name that no statement has bound yet
Unbound == "unbound"

Returned(v) == [status |-> "returned", value |-> v]

Raised(e) == [status |-> e, value |-> <<>>]

\* for wait in tuple_sorted(cur_waits): if snode in wait.node_users: ...
WaitsUsedBy(cur_waits, snode) == {w \in cur_waits : snode \in node_users(w)}

\* mutant: the loop body appends snode, the node it has in hand
RECURSIVE SinkWaitsLoop_appending_snode(_, _, _, _, _)
SinkWaitsLoop_appending_snode(res, i, new_result, cur_waits, node) ==
  IF i > Len(res) THEN Returned(new_result \o tuple_sorted(cur_waits))
  ELSE LET snode == res[i] IN
       IF IsWait(snode) THEN SinkWaitsLoop_appending_snode(res, i + 1, new_result, cur_waits \cup {snode}, node)
       ELSE LET flushed == WaitsUsedBy(cur_waits, snode) IN
            SinkWaitsLoop_appending_snode(res, i + 1, Append(new_result \o tuple_sorted(flushed), snode),
                                          cur_waits \ flushed, node)

\* The for loop of sink_waits from position i on.  `node` is the function's
\* local of that name: the loop over result binds snode and wait, never node,
\* which is first bound by the closing loop, so that reading it in the loop
\* body raises UnboundLocalError.
RECURSIVE SinkWaitsLoop(_, _, _, _, _)
SinkWaitsLoop(res, i, new_result, cur_waits, node) ==
  IF i > Len(res) THEN Returned(new_result \o tuple_sorted(cur_waits))
  ELSE LET snode == res[i] IN
       IF IsWait(snode) THEN SinkWaitsLoop(res, i + 1, new_result, cur_waits \cup {snode}, node)
       ELSE LET flushed == WaitsUsedBy(cur_waits, snode) IN
            IF node = Unbound THEN Raised("UnboundLocalError")
            ELSE SinkWaitsLoop(res, i + 1, Append(new_result \o tuple_sorted(flushed), node),
                               cur_waits \ flushed, node)

sink_waits(res) == SinkWaitsLoop(res, 1, <<>>, {}, Unbound)

\* ---------------------------------------------------------------- raise_comms
\* comm.args: the nodes whose results the communication node takes as input
args(comm) == inverse_users(comm)

\* mutant: the pending communication node queued last is taken out first
RECURSIVE PopWhileArg_last_in(_, _, _)
PopWhileArg_last_in(snode, cur_comms, new_result) ==
  IF Len(cur_comms) > 0 /\ \E k \in DOMAIN cur_comms : snode \in args(cur_comms[k])
  THEN PopWhileArg_last_in(snode, SubSeq(cur_comms, 1, Len(cur_comms) - 1),
                           Append(new_result, cur_comms[Len(cur_comms)]))
  ELSE [cur_comms |-> cur_comms, new_result |-> new_result]

\* while len(cur_comms) > 0 and any([snode in comm.args for comm in cur_comms]):
\*     comm = cur_comms.pop(0); new_result.append(comm)
RECURSIVE PopWhileArg(_, _, _)
PopWhileArg(snode, cur_comms, new_result) ==
  IF Len(cur_comms) > 0 /\ \E k \in DOMAIN cur_comms : snode \in args(cur_comms[k])
  THEN PopWhileArg(snode, Tail(cur_comms), Append(new_result, Head(cur_comms)))
  ELSE [cur_comms |-> cur_comms, new_result |-> new_result]

\* the loop over reversed(result), rev being the reversed list
RECURSIVE RaiseCommsLoop(_, _, _, _)
RaiseCommsLoop(rev, i, new_result, cur_comms) ==
  IF i > Len(rev)
  THEN IF Len(cur_comms) <= 1
       THEN Returned(Reverse(new_result \o tuple_sorted(Range(cur_comms))))
       ELSE Raised("AssertionError")
  ELSE LET snode == rev[i] IN
       IF IsComm(snode) THEN RaiseCommsLoop(rev, i + 1, new_result, Append(cur_comms, snode))
       ELSE LET popped == PopWhileArg(snode, cur_comms, new_result)
            IN RaiseCommsLoop(rev, i + 1, Append(popped.new_result, snode), popped.cur_comms)

raise_comms(res) == RaiseCommsLoop(Reverse(res), 1, <<>>, <<>>)

\* ---------------------------------------------------------- initial states
NoDeps(n) == [i \in 1..n |-> <<>>]

\* a graph snapshot as the compiler hands it over: n nodes, any arrangement
\* of them as the input list, any kinds, any acyclic dependencies, any costs
GraphInit(KindSet, CostSet) ==
  \E n \in 1..MaxNodes :
    /\ edges \in Dags(n)
    /\ snodes \in Perms(1..n)
    /\ kind \in [1..n -> KindSet]
    /\ cost \in [1..n -> CostSet]
    /\ weak_deps = NoDeps(n)

\* nothing is scheduled before reorder_computation_for_overlap is entered,
\* nothing is written yet
LocalsIdle ==
  /\ comm_nodes = <<>>
  /\ comm_ancestors = <<>>
  /\ comm_descendants = <<>>
  /\ indeg = <<>>
  /\ free_nodes = {}
  /\ unused_nodes = {}
  /\ result = <<>>
  /\ idx = 0
  /\ rolled_over_compute = 0
  /\ is_comm_blocking = FALSE
  /\ total_cost = 0
  /\ comm_cost = 0
  /\ group1_cost = 0
  /\ overlappable_nodes = <<>>
  /\ phase = "none"
  /\ all_nodes = {}
  /\ pass = <<>>
  /\ progress = FALSE
  /\ stdout = {}

\* the same in the default environment, INDUCTOR_COMM_DEBUG not set
SchedIdle == LocalsIdle /\ debug = FALSE

\* ------------------------------ specification of get_ancestors/descendants
\* the traversals read the edges alone: the nodes are listed in name order
\* and are all compute nodes
InitAncestors ==
  /\ \E n \in 1..MaxNodes :
       /\ edges \in Dags(n)
       /\ snodes = [i \in 1..n |-> i]
       /\ kind = [i \in 1..n |-> "compute"]
       /\ cost = [i \in 1..n |-> 1]
       /\ weak_deps = NoDeps(n)
  /\ SchedIdle
  /\ pc = "idle"
  /\ op = "none"
  /\ arg = NoNode
  /\ ret = {}

CallGetAncestors ==
  /\ pc = "idle"
  /\ \E n \in Nodes :
       /\ arg' = n
       /\ ret' = get_ancestors(n)
  /\ op' = "get_ancestors"
  /\ pc' = "applied"
  /\ UNCHANGED <<graphVars, schedVars, stdout>>

CallGetDescendants ==
  /\ pc = "idle"
  /\ \E n \in Nodes :
       /\ arg' = n
       /\ ret' = get_descendants(n)
  /\ op' = "get_descendants"
  /\ pc' = "applied"
  /\ UNCHANGED <<graphVars, schedVars, stdout>>

NextAncestors == CallGetAncestors \/ CallGetDescendants

SpecAncestors == InitAncestors /\ [][NextAncestors]_vars

\* ------------------------------ specification of decide_global_ordering_comms
\* the pass tells communication nodes from all others
InitOrdering ==
  /\ GraphInit({"compute", "comm"}, {1})
  /\ SchedIdle
  /\ pc = "idle"
  /\ op = "none"
  /\ arg = NoNode
  /\ ret = {}

CallDecideGlobalOrderingComms ==
  /\ pc = "idle"
  /\ LET g == decide_global_ordering_comms(snodes, [weak_deps |-> weak_deps, edges |-> edges])
     IN /\ weak_deps' = g.weak_deps
        /\ edges' = g.edges
  /\ op' = "decide_global_ordering_comms"
  /\ arg' = NoNode
  /\ ret' = snodes
  /\ pc' = "applied"
  /\ UNCHANGED <<snodes, kind, cost, debug, schedVars, stdout>>

SpecOrdering == InitOrdering /\ [][CallDecideGlobalOrderingComms]_vars

\* --------------------------------------------- specification of sink_waits
\* the pass tells WAIT nodes from all others
InitSinkWaits ==
  /\ GraphInit({"compute", "wait"}, {1})
  /\ SchedIdle
  /\ pc = "idle"
  /\ op = "none"
  /\ arg = NoNode
  /\ ret = {}

CallSinkWaits ==
  /\ pc = "idle"
  /\ op' = "sink_waits"
  /\ arg' = snodes
  /\ ret' = sink_waits(snodes)
  /\ pc' = "applied"
  /\ UNCHANGED <<graphVars, schedVars, stdout>>

\* sink_waits(sink_waits(snodes)): arg is the outcome of the inner call, whose
\* value is the argument of the outer call; an exception of the inner call
\* reaches the caller and the outer call is never made
CallSinkWaitsTwice ==
  /\ pc = "idle"
  /\ op' = "sink_waits_twice"
  /\ LET inner == sink_waits(snodes) IN
       /\ arg' = inner
       /\ ret' = IF inner.status = "returned" THEN sink_waits(inner.value) ELSE inner
  /\ pc' = "applied"
  /\ UNCHANGED <<graphVars, schedVars, stdout>>

NextSinkWaits == CallSinkWaits \/ CallSinkWaitsTwice

SpecSinkWaits == InitSinkWaits /\ [][NextSinkWaits]_vars

\* -------------------------------------------- specification of raise_comms
\* the pass tells communication nodes from all others
InitRaiseComms ==
  /\ GraphInit({"compute", "comm"}, {1})
  /\ SchedIdle
  /\ pc = "idle"
  /\ op = "none"
  /\ arg = NoNode
  /\ ret = {}

CallRaiseComms ==
  /\ pc = "idle"
  /\ op' = "raise_comms"
  /\ arg' = snodes
  /\ ret' = raise_comms(snodes)
  /\ pc' = "applied"
  /\ UNCHANGED <<graphVars, schedVars, stdout>>

SpecRaiseComms == InitRaiseComms /\ [][CallRaiseComms]_vars

\* ------------------------------------------------ reorder_computation_for_overlap
\* The call is modelled statement by statement.  pc is the position:
\*   "idle"            before decide_global_ordering_comms
\*   "ordered"         before reorder_computation_for_overlap is entered
\*   "breakpoint_143"  stopped in breakpoint() at line 143
\*   "add_all_nodes"   at the while test of add_all_nodes (line 168)
\*   "pass"            inside its for loop (lines 170-174)
\*   "breakpoint_176"  stopped in breakpoint() at line 176
\*   "priority2"       at the for loop of priority 2 (lines 221-234)
\*   "postprocess"     before sink_waits(result) (line 256)
\*   "done", "error"   the call has returned, or has raised
\* idx is the Python index of the loop at line 182; comm_nodes[idx] there is
\* CommAt(idx) here.
InitSched ==
  /\ GraphInit(Kinds, 1..MaxCost)
  /\ SchedIdle
  /\ pc = "idle"
  /\ op = "none"
  /\ arg = NoNode
  /\ ret = {}

CommAt(i) == comm_nodes[i + 1]

\* the caller fixes the order of the communication nodes first
Decide ==
  /\ pc = "idle"
  /\ LET g == decide_global_ordering_comms(snodes, [weak_deps |-> weak_deps, edges |-> edges])
     IN /\ weak_deps' = g.weak_deps
        /\ edges' = g.edges
  /\ pc' = "ordered"
  /\ UNCHANGED <<snodes, kind, cost, debug, op, arg, ret, schedVars, stdout>>

\* indeg after lines 138-142
InitialIndeg == [k \in Range(snodes) |-> Cardinality({s \in Range(snodes) : k \in node_users(s)})]

\* mutant: the early return is missing, the input goes through the two passes
ReturnInput_through_passes ==
  /\ pc = "ordered"
  /\ Len(CommNodesOf(snodes)) = 0
  /\ op' = "reorder_computation_for_overlap"
  /\ arg' = snodes
  /\ LET sunk == sink_waits(snodes) IN
       ret' = IF sunk.status = "returned" THEN raise_comms(sunk.value) ELSE sunk
  /\ pc' = IF sink_waits(snodes).status = "returned" THEN "done" ELSE "error"
  /\ UNCHANGED <<graphVars, schedVars, stdout>>

\* lines 127-133: no communication node, the input is returned as it is
ReturnInput ==
  /\ pc = "ordered"
  /\ Len(CommNodesOf(snodes)) = 0
  /\ op' = "reorder_computation_for_overlap"
  /\ arg' = snodes
  /\ ret' = Returned(snodes)
  /\ pc' = "done"
  /\ UNCHANGED <<graphVars, schedVars, stdout>>

\* lines 127-143: the tables are built and breakpoint() is entered
Begin ==
  /\ pc = "ordered"
  /\ Len(CommNodesOf(snodes)) # 0
  /\ op' = "reorder_computation_for_overlap"
  /\ arg' = snodes
  /\ comm_nodes' = CommNodesOf(snodes)
  /\ comm_ancestors' = [n \in Range(CommNodesOf(snodes)) |-> get_ancestors(n)]
  /\ comm_descendants' = [n \in Range(CommNodesOf(snodes)) |-> get_descendants(n)]
  /\ indeg' = InitialIndeg
  /\ pc' = "breakpoint_143"
  /\ UNCHANGED <<graphVars, ret, free_nodes, unused_nodes, result, loopVars, batchVars, stdout>>

\* add_all_nodes(batch) is entered (lines 166-167); unused is unused_nodes at
\* the call
EnterAddAllNodes(batch, ph, unused) ==
  /\ phase' = ph
  /\ all_nodes' = batch
  /\ pass' = <<>>
  /\ progress' = FALSE
  /\ IF batch \subseteq unused
     THEN pc' = "add_all_nodes" /\ ret' = ret
     ELSE pc' = "error" /\ ret' = Raised("AssertionError")

\* mutant: every node starts free, whatever its in-degree
Continue143_all_free ==
  /\ pc = "breakpoint_143"
  /\ free_nodes' = Range(snodes)
  /\ result' = <<>>
  /\ unused_nodes' = Range(snodes)
  /\ EnterAddAllNodes(comm_ancestors[CommAt(0)] \cup {CommAt(0)}, "initial", Range(snodes))
  /\ UNCHANGED <<graphVars, op, arg, setupVars, indeg, loopVars, stdout>>

\* the debugger lets the call go on from line 143: lines 144-147 and the
\* call at line 179
Continue143 ==
  /\ pc = "breakpoint_143"
  /\ free_nodes' = {n \in Range(snodes) : indeg[n] = 0}
  /\ result' = <<>>
  /\ unused_nodes' = Range(snodes)
  /\ EnterAddAllNodes(comm_ancestors[CommAt(0)] \cup {CommAt(0)}, "initial", Range(snodes))
  /\ UNCHANGED <<graphVars, op, arg, setupVars, indeg, loopVars, stdout>>

\* debug_print(s), lines 110-113: printd(s) when the toggle is set
debug_print == stdout' = IF debug THEN stdout \cup {"debug_print"} ELSE stdout

\* mutant: no successor is ever made free
add_node_no_promotion(node) ==
  /\ free_nodes' = free_nodes \ {node}
  /\ unused_nodes' = unused_nodes \ {node}
  /\ debug_print
  /\ result' = Append(result, node)
  /\ indeg' = [u \in DOMAIN indeg |-> IF u \in node_users(node) THEN indeg[u] - 1 ELSE indeg[u]]

\* mutant: every successor is made free at once, whatever its in-degree
add_node_promote_all(node) ==
  /\ free_nodes' = (free_nodes \ {node}) \cup (node_users(node) \cap DOMAIN indeg)
  /\ unused_nodes' = unused_nodes \ {node}
  /\ debug_print
  /\ result' = Append(result, node)
  /\ indeg' = [u \in DOMAIN indeg |-> IF u \in node_users(node) THEN indeg[u] - 1 ELSE indeg[u]]

\* mutant: the node stays in unused_nodes
add_node_keeps_unused(node) ==
  /\ free_nodes' = (free_nodes \ {node}) \cup {u \in node_users(node) \cap DOMAIN indeg : indeg[u] - 1 = 0}
  /\ unused_nodes' = unused_nodes
  /\ debug_print
  /\ result' = Append(result, node)
  /\ indeg' = [u \in DOMAIN indeg |-> IF u \in node_users(node) THEN indeg[u] - 1 ELSE indeg[u]]

\* add_node(node), lines 153-160
add_node(node) ==
  /\ free_nodes' = (free_nodes \ {node}) \cup {u \in node_users(node) \cap DOMAIN indeg : indeg[u] - 1 = 0}
  /\ unused_nodes' = unused_nodes \ {node}
  /\ debug_print
  /\ result' = Append(result, node)
  /\ indeg' = [u \in DOMAIN indeg |-> IF u \in node_users(node) THEN indeg[u] - 1 ELSE indeg[u]]

\* mutant: the pass goes over the batch in descending name order
StartPass_descending ==
  /\ pc = "add_all_nodes"
  /\ all_nodes # {}
  /\ pass' = Reverse(tuple_sorted(all_nodes))
  /\ progress' = FALSE
  /\ pc' = "pass"
  /\ UNCHANGED <<graphVars, op, arg, ret, setupVars, poolVars, loopVars, phase, all_nodes, stdout>>

\* line 168 and line 170: a pass over the sorted batch begins
StartPass ==
  /\ pc = "add_all_nodes"
  /\ all_nodes # {}
  /\ pass' = tuple_sorted(all_nodes)
  /\ progress' = FALSE
  /\ pc' = "pass"
  /\ UNCHANGED <<graphVars, op, arg, ret, setupVars, poolVars, loopVars, phase, all_nodes, stdout>>

\* mutant: a scheduled node is cut off from its successors, as in a
\* topological sort that consumes the graph
PassVisit_removing_edges ==
  /\ pc = "pass"
  /\ pass # <<>>
  /\ LET node == Head(pass) IN
       IF node \in free_nodes
       THEN /\ add_node(node)
            /\ all_nodes' = all_nodes \ {node}
            /\ progress' = TRUE
            /\ edges' = {e \in edges : e[1] # node}
       ELSE UNCHANGED <<poolVars, all_nodes, progress, stdout, edges>>
  /\ pass' = Tail(pass)
  /\ UNCHANGED <<snodes, kind, cost, weak_deps, debug, callVars, setupVars, loopVars, phase>>

\* mutant: the pass schedules every node of the batch, free or not
PassVisit_without_free_test ==
  /\ pc = "pass"
  /\ pass # <<>>
  /\ LET node == Head(pass) IN
       /\ add_node(node)
       /\ all_nodes' = all_nodes \ {node}
       /\ progress' = TRUE
  /\ pass' = Tail(pass)
  /\ UNCHANGED <<graphVars, callVars, setupVars, loopVars, phase>>

\* lines 170-174, one node of the pass
PassVisit ==
  /\ pc = "pass"
  /\ pass # <<>>
  /\ LET node == Head(pass) IN
       IF node \in free_nodes
       THEN /\ add_node(node)
            /\ all_nodes' = all_nodes \ {node}
            /\ progress' = TRUE
       ELSE UNCHANGED <<poolVars, all_nodes, progress, stdout>>
  /\ pass' = Tail(pass)
  /\ UNCHANGED <<graphVars, callVars, setupVars, loopVars, phase>>

\* line 175 after a pass that scheduled something
PassEnd ==
  /\ pc = "pass"
  /\ pass = <<>>
  /\ progress
  /\ pc' = "add_all_nodes"
  /\ UNCHANGED <<graphVars, op, arg, ret, schedVars, stdout>>

\* lines 175-176 after a pass that scheduled nothing: breakpoint() is entered
Stall ==
  /\ pc = "pass"
  /\ pass = <<>>
  /\ ~progress
  /\ pc' = "breakpoint_176"
  /\ UNCHANGED <<graphVars, op, arg, ret, schedVars, stdout>>

\* the debugger lets the call go on from line 176: print(), then the while
\* test again
Continue176 ==
  /\ pc = "breakpoint_176"
  /\ pc' = "add_all_nodes"
  /\ stdout' = stdout \cup {"print"}
  /\ UNCHANGED <<graphVars, op, arg, ret, schedVars>>

BatchDone(phases) == pc = "add_all_nodes" /\ all_nodes = {} /\ phase \in phases

\* mutant: the accumulated cost starts from the costs of priority 1 alone,
\* the rolled-over cost is left out
NextComm_without_rollover ==
  /\ BatchDone({"initial", "priority3"})
  /\ LET i == IF phase = "initial" THEN 1 ELSE idx + 1
         rolled == IF phase = "initial" THEN 0 ELSE rolled_over_compute
     IN /\ i < Len(comm_nodes)
        /\ idx' = i
        /\ rolled_over_compute' = rolled
        /\ is_comm_blocking' = (comm_descendants[CommAt(i - 1)] \cap comm_ancestors[CommAt(i)] # {})
        /\ LET priority1 == unused_nodes \cap (comm_ancestors[CommAt(i)] \ comm_descendants[CommAt(i - 1)])
           IN /\ total_cost' = SumOver(priority1, cost)
              /\ EnterAddAllNodes(priority1, "priority1", unused_nodes)
        /\ comm_cost' = cost[CommAt(i - 1)]
  /\ debug_print
  /\ UNCHANGED <<graphVars, op, arg, setupVars, poolVars, group1_cost, overlappable_nodes>>

\* mutant: priority 1 takes every unused ancestor of the next communication
\* node, the descendants of the outstanding one included
NextComm_all_ancestors ==
  /\ BatchDone({"initial", "priority3"})
  /\ LET i == IF phase = "initial" THEN 1 ELSE idx + 1
         rolled == IF phase = "initial" THEN 0 ELSE rolled_over_compute
     IN /\ i < Len(comm_nodes)
        /\ idx' = i
        /\ rolled_over_compute' = rolled
        /\ is_comm_blocking' = (comm_descendants[CommAt(i - 1)] \cap comm_ancestors[CommAt(i)] # {})
        /\ LET priority1 == unused_nodes \cap comm_ancestors[CommAt(i)]
           IN /\ total_cost' = rolled + SumOver(priority1, cost)
              /\ EnterAddAllNodes(priority1, "priority1", unused_nodes)
        /\ comm_cost' = cost[CommAt(i - 1)]
  /\ debug_print
  /\ UNCHANGED <<graphVars, op, arg, setupVars, poolVars, group1_cost, overlappable_nodes>>

\* lines 181-199: the next iteration of the loop over the communication
\* nodes begins, up to the call add_all_nodes(tuple_sorted(priority1))
NextComm ==
  /\ BatchDone({"initial", "priority3"})
  /\ LET i == IF phase = "initial" THEN 1 ELSE idx + 1
         rolled == IF phase = "initial" THEN 0 ELSE rolled_over_compute
     IN /\ i < Len(comm_nodes)
        /\ idx' = i
        /\ rolled_over_compute' = rolled
        /\ is_comm_blocking' = (comm_descendants[CommAt(i - 1)] \cap comm_ancestors[CommAt(i)] # {})
        /\ LET priority1 == unused_nodes \cap (comm_ancestors[CommAt(i)] \ comm_descendants[CommAt(i - 1)])
           IN /\ total_cost' = rolled + SumOver(priority1, cost)
              /\ EnterAddAllNodes(priority1, "priority1", unused_nodes)
        /\ comm_cost' = cost[CommAt(i - 1)]
  /\ debug_print
  /\ UNCHANGED <<graphVars, op, arg, setupVars, poolVars, group1_cost, overlappable_nodes>>

\* line 254: the loop is over, add_all_nodes(unused_nodes)
Finish ==
  /\ BatchDone({"initial", "priority3"})
  /\ (IF phase = "initial" THEN 1 ELSE idx + 1) >= Len(comm_nodes)
  /\ rolled_over_compute' = IF phase = "initial" THEN 0 ELSE rolled_over_compute
  /\ EnterAddAllNodes(unused_nodes, "final", unused_nodes)
  /\ IF phase = "priority3" THEN debug_print ELSE stdout' = stdout
  /\ UNCHANGED <<graphVars, op, arg, setupVars, poolVars, idx, is_comm_blocking, total_cost, comm_cost, group1_cost, overlappable_nodes>>

\* earliest_comm_descendant(node), lines 211-215
earliest_comm_descendant(node) ==
  LET hits == {i \in 0..(Len(comm_nodes) - 1) : node \in comm_ancestors[CommAt(i)]}
  IN IF hits = {} THEN Len(comm_nodes) ELSE Min(hits)

\* mutant: the second sort is left out, the candidates stay in name order
SortedByKeyFrom_name_order(s, k) == s

\* sorted(s, key=earliest_comm_descendant): stable, keys in 0..len(comm_nodes)
RECURSIVE SortedByKeyFrom(_, _)
SortedByKeyFrom(s, k) ==
  IF k > Len(comm_nodes) THEN <<>>
  ELSE SelectSeq(s, LAMBDA n : earliest_comm_descendant(n) = k) \o SortedByKeyFrom(s, k + 1)

\* mutant: the descendants of comm_nodes[idx - 1] stay among the candidates
Priority2Begin_with_descendants ==
  /\ BatchDone({"priority1"})
  /\ group1_cost' = total_cost
  /\ overlappable_nodes' =
       IF total_cost >= comm_cost THEN <<>>
       ELSE SortedByKeyFrom(tuple_sorted(free_nodes), 0)
  /\ pc' = "priority2"
  /\ debug_print
  /\ UNCHANGED <<graphVars, op, arg, ret, setupVars, poolVars, idx, rolled_over_compute, is_comm_blocking, total_cost, comm_cost, batchVars>>

\* lines 203-219: priority 1 is scheduled; the candidates of priority 2
Priority2Begin ==
  /\ BatchDone({"priority1"})
  /\ group1_cost' = total_cost
  /\ overlappable_nodes' =
       IF total_cost >= comm_cost THEN <<>>
       ELSE SortedByKeyFrom(tuple_sorted(free_nodes \ comm_descendants[CommAt(idx - 1)]), 0)
  /\ pc' = "priority2"
  /\ debug_print
  /\ UNCHANGED <<graphVars, op, arg, ret, setupVars, poolVars, idx, rolled_over_compute, is_comm_blocking, total_cost, comm_cost, batchVars>>

\* mutant: a candidate is skipped when its cost is less than half of the
\* remaining deficit
Priority2Visit_half_of_deficit ==
  /\ pc = "priority2"
  /\ overlappable_nodes # <<>>
  /\ total_cost < comm_cost
  /\ LET snode == Head(overlappable_nodes) IN
       IF IsComm(snode) \/ 2 * cost[snode] < comm_cost - total_cost
       THEN UNCHANGED <<poolVars, total_cost, pc, ret, stdout>>
       ELSE IF snode \in unused_nodes /\ snode \in free_nodes
            THEN /\ add_node(snode)
                 /\ total_cost' = total_cost + cost[snode]
                 /\ UNCHANGED <<pc, ret>>
            ELSE /\ pc' = "error"
                 /\ ret' = Raised("AssertionError")
                 /\ UNCHANGED <<poolVars, total_cost, stdout>>
  /\ overlappable_nodes' = Tail(overlappable_nodes)
  /\ UNCHANGED <<graphVars, op, arg, setupVars, idx, rolled_over_compute, is_comm_blocking, comm_cost, group1_cost, batchVars>>

\* lines 221-234, one candidate
Priority2Visit ==
  /\ pc = "priority2"
  /\ overlappable_nodes # <<>>
  /\ total_cost < comm_cost
  /\ LET snode == Head(overlappable_nodes) IN
       IF IsComm(snode) \/ 2 * (comm_cost - total_cost) <= cost[snode]
       THEN UNCHANGED <<poolVars, total_cost, pc, ret, stdout>>
       ELSE IF snode \in unused_nodes /\ snode \in free_nodes
            THEN /\ add_node(snode)
                 /\ total_cost' = total_cost + cost[snode]
                 /\ UNCHANGED <<pc, ret>>
            ELSE /\ pc' = "error"
                 /\ ret' = Raised("AssertionError")
                 /\ UNCHANGED <<poolVars, total_cost, stdout>>
  /\ overlappable_nodes' = Tail(overlappable_nodes)
  /\ UNCHANGED <<graphVars, op, arg, setupVars, idx, rolled_over_compute, is_comm_blocking, comm_cost, group1_cost, batchVars>>

\* mutant: the whole accumulated cost is rolled over, the cost of priority 1
\* and the cost rolled in not taken off
Priority3Begin_rolls_total ==
  /\ pc = "priority2"
  /\ overlappable_nodes = <<>> \/ total_cost >= comm_cost
  /\ rolled_over_compute' = IF is_comm_blocking THEN 0 ELSE total_cost
  /\ EnterAddAllNodes((unused_nodes \cap comm_ancestors[CommAt(idx)]) \cup {CommAt(idx)}, "priority3", unused_nodes)
  /\ debug_print
  /\ UNCHANGED <<graphVars, op, arg, setupVars, poolVars, idx, is_comm_blocking, total_cost, comm_cost, group1_cost, overlappable_nodes>>

\* lines 235-251: the rollover, then add_all_nodes(priority3 + [comm_nodes[idx]])
Priority3Begin ==
  /\ pc = "priority2"
  /\ overlappable_nodes = <<>> \/ total_cost >= comm_cost
  /\ rolled_over_compute' = IF is_comm_blocking THEN 0 ELSE total_cost - group1_cost
  /\ EnterAddAllNodes((unused_nodes \cap comm_ancestors[CommAt(idx)]) \cup {CommAt(idx)}, "priority3", unused_nodes)
  /\ debug_print
  /\ UNCHANGED <<graphVars, op, arg, setupVars, poolVars, idx, is_comm_blocking, total_cost, comm_cost, group1_cost, overlappable_nodes>>

\* the last batch is scheduled
FinalDone ==
  /\ BatchDone({"final"})
  /\ pc' = "postprocess"
  /\ UNCHANGED <<graphVars, op, arg, ret, schedVars, stdout>>

\* lines 256-260: sink_waits, then raise_comms, then the return
PostProcess ==
  /\ pc = "postprocess"
  /\ LET sunk == sink_waits(result) IN
       IF sunk.status # "returned"
       THEN /\ pc' = "error"
            /\ ret' = sunk
            /\ UNCHANGED <<result, stdout>>
       ELSE LET raised == raise_comms(sunk.value) IN
            IF raised.status # "returned"
            THEN /\ pc' = "error"
                 /\ ret' = raised
                 /\ result' = sunk.value
                 /\ stdout' = stdout
            ELSE /\ pc' = "done"
                 /\ ret' = raised
                 /\ result' = raised.value
                 /\ stdout' = stdout \cup {"printd"}
  /\ UNCHANGED <<graphVars, op, arg, setupVars, indeg, free_nodes, unused_nodes, loopVars, batchVars>>

Next ==
  \/ Decide
  \/ ReturnInput
  \/ Begin
  \/ Continue143
  \/ StartPass
  \/ PassVisit
  \/ PassEnd
  \/ Stall
  \/ Continue176
  \/ NextComm
  \/ Finish
  \/ Priority2Begin
  \/ Priority2Visit
  \/ Priority3Begin
  \/ FinalDone
  \/ PostProcess

Spec == InitSched /\ [][Next]_vars

\* The same call on the inputs that hold no communication node: the early
\* return at line 133 is the only path, no other statement is reached.
InitNoComm ==
  /\ GraphInit({"compute", "wait"}, {1})
  /\ SchedIdle
  /\ pc = "idle"
  /\ op = "none"
  /\ arg = NoNode
  /\ ret = {}

NextNoComm == Decide \/ ReturnInput

SpecNoComm == InitNoComm /\ [][NextNoComm]_vars

\* The same call on the inputs that hold exactly one communication node:
\* the loop at line 182 has no iteration, the call is add_all_nodes on the
\* ancestors of the communication node and on it (line 179), add_all_nodes
\* on all the rest (line 254) and the two passes.  No statement on this path
\* reads a runtime cost or tells a WAIT node from a compute node before
\* line 256.
InitOneComm ==
  /\ \E n \in 1..MaxBatchNodes :
       /\ edges \in Dags(n)
       /\ snodes \in Perms(1..n)
       /\ \E c \in 1..n : kind = [i \in 1..n |-> IF i = c THEN "comm" ELSE "compute"]
       /\ cost = [i \in 1..n |-> 1]
       /\ weak_deps = NoDeps(n)
  /\ SchedIdle
  /\ pc = "idle"
  /\ op = "none"
  /\ arg = NoNode
  /\ ret = {}

NextOneComm ==
  \/ Decide
  \/ Begin
  \/ Continue143
  \/ StartPass
  \/ PassVisit
  \/ PassEnd
  \/ Finish
  \/ FinalDone
  \/ PostProcess

SpecOneComm == InitOneComm /\ [][NextOneComm]_vars

\* The chain A -> B -> C with A and C compute nodes of runtime cost 1 and B
\* a communication node of runtime cost 10, under every naming of the three
\* nodes and in every input order.
IsChain(a, b, c) ==
  /\ edges = {<<a, b>>, <<b, c>>}
  /\ kind = (a :> "compute") @@ (b :> "comm") @@ (c :> "compute")
  /\ cost = (a :> 1) @@ (b :> 10) @@ (c :> 1)

InitChain ==
  /\ snodes \in Perms(1..3)
  /\ \E p \in Perms(1..3) :
       /\ edges = {<<p[1], p[2]>>, <<p[2], p[3]>>}
       /\ kind = [i \in 1..3 |-> IF i = p[2] THEN "comm" ELSE "compute"]
       /\ cost = [i \in 1..3 |-> IF i = p[2] THEN 10 ELSE 1]
  /\ weak_deps = NoDeps(3)
  /\ SchedIdle
  /\ pc = "idle"
  /\ op = "none"
  /\ arg = NoNode
  /\ ret = {}

SpecChain == InitChain /\ [][NextOneComm]_vars

\* The same call on the inputs that hold two communication nodes or more, up
\* to MaxBatchNodes nodes, listed in name order: the loop at line 182 has an
\* iteration for each communication node but the first.  The order of the
\* input list is read for the order of the communication nodes only (lines
\* 94 and 128-130), here their name order; the main loop does not tell a
\* WAIT node from a compute node.
OverlapInit(MaxN, CostSet) ==
  /\ \E n \in 2..MaxN :
       /\ edges \in Dags(n)
       /\ snodes = [i \in 1..n |-> i]
       /\ kind \in {k \in [1..n -> {"compute", "comm"}] : Cardinality({i \in 1..n : k[i] = "comm"}) >= 2}
       /\ cost \in [1..n -> CostSet]
       /\ weak_deps = NoDeps(n)
  /\ SchedIdle
  /\ pc = "idle"
  /\ op = "none"
  /\ arg = NoNode
  /\ ret = {}

InitOverlap == OverlapInit(MaxBatchNodes, 1..MaxCost)

NextOverlap ==
  \/ Decide
  \/ Begin
  \/ Continue143
  \/ StartPass
  \/ PassVisit
  \/ PassEnd
  \/ Stall
  \/ Continue176
  \/ NextComm
  \/ Finish
  \/ Priority2Begin
  \/ Priority2Visit
  \/ Priority3Begin
  \/ FinalDone
  \/ PostProcess

SpecOverlap == InitOverlap /\ [][NextOverlap]_vars

\* the same on smaller inputs with a wider range of runtime costs
InitRuntime == OverlapInit(MaxNodes, 1..MaxRuntime)

SpecRuntime == InitRuntime /\ [][NextOverlap]_vars

\* The same on larger inputs of a narrower family: every dependency joins a
\* communication node and a node that is none (in either direction), a
\* communication node costs MaxCost and any other node 1.  Five nodes are
\* the least for two candidates of priority 2 that are needed by different
\* communication nodes.
InitCandidates ==
  /\ \E n \in 2..MaxCandidateNodes :
       /\ kind \in {k \in [1..n -> {"compute", "comm"}] : Cardinality({i \in 1..n : k[i] = "comm"}) >= 2}
       /\ edges \in {E \in SUBSET {p \in Pairs(n) : (kind[p[1]] = "comm") # (kind[p[2]] = "comm")} : Acyclic(E)}
       /\ snodes = [i \in 1..n |-> i]
       /\ cost = [i \in 1..n |-> IF kind[i] = "comm" THEN MaxCost ELSE 1]
       /\ weak_deps = NoDeps(n)
  /\ SchedIdle
  /\ pc = "idle"
  /\ op = "none"
  /\ arg = NoNode
  /\ ret = {}

SpecCandidates == InitCandidates /\ [][NextOverlap]_vars

\* ------------------------------------------------- claims on the helpers
Decided == pc = "applied" /\ op = "decide_global_ordering_comms"

TotalWeakDeps == SumOver(DOMAIN weak_deps, [n \in DOMAIN weak_deps |-> Len(weak_deps[n])])

\* C6: decide_global_ordering_comms gives the i-th communication node of the
\* input (i >= 1) exactly one synthetic dependency, on the (i-1)-th
\* communication node, and C - 1 synthetic dependencies are added in all for
\* C >= 1 communication nodes (none when there is no communication node).
C6_OneDepOnPreviousComm ==
  Decided =>
    LET comms == CommNodesOf(snodes)
    IN /\ \A i \in 2..Len(comms) : weak_deps[comms[i]] = <<comms[i - 1]>>
       /\ TotalWeakDeps = IF Len(comms) = 0 THEN 0 ELSE Len(comms) - 1

C6_Witness ==
  /\ Decided
  /\ Len(CommNodesOf(snodes)) = 3
  /\ TotalWeakDeps = 2

\* C7: decide_global_ordering_comms changes no dependency of a node that is
\* not a communication node, none of the first communication node, and
\* neither the membership nor the order of the node list.
C7_OrderingFrame ==
  [][Decided' =>
       /\ snodes' = snodes
       /\ \A n \in Nodes :
            (~IsComm(n) \/ n = CommNodesOf(snodes)[1]) =>
              /\ weak_deps'[n] = weak_deps[n]
              /\ inverse_users(n)' = inverse_users(n)]_vars

C7_Witness ==
  /\ Decided
  /\ Len(CommNodesOf(snodes)) >= 2
  /\ \E n \in Nodes : ~IsComm(n) /\ inverse_users(n) # {}
  /\ inverse_users(CommNodesOf(snodes)[1]) # {}

\* C8: on an acyclic dependency graph get_ancestors(node) is exactly the set
\* of nodes from which one or more predecessor edges lead to node, and does
\* not contain node; get_descendants(node) is the same over successor edges.
C8_AncestorsAreTransitiveClosure ==
  (pc = "applied" /\ Acyclic(edges)) =>
    /\ op = "get_ancestors" =>
         /\ ret = {a \in Nodes : <<a, arg>> \in TransitiveClosure(edges)}
         /\ arg \notin ret
    /\ op = "get_descendants" =>
         /\ ret = {b \in Nodes : <<arg, b>> \in TransitiveClosure(edges)}
         /\ arg \notin ret

C8_Witness ==
  /\ pc = "applied"
  /\ op = "get_ancestors"
  /\ Acyclic(edges)
  /\ \E a \in ret : a \notin inverse_users(arg)

\* ------------------------------------------------ claims on the scheduler
\* the call of reorder_computation_for_overlap is over
Finished == op = "reorder_computation_for_overlap" /\ pc \in {"done", "error"}

IsPermutationOf(s, t) == Len(s) = Len(t) /\ Range(s) = Range(t) /\ IsInjective(s)

\* every edge between two nodes of s goes forward in s
TopologicallyValid(s) ==
  \A e \in edges : (e[1] \in Range(s) /\ e[2] \in Range(s)) => IndexOf(s, e[1]) < IndexOf(s, e[2])

\* C1: for every input list reorder_computation_for_overlap returns a
\* sequence that is a permutation of the input (every node exactly once).
C1_ReturnsPermutation ==
  Finished => (ret.status = "returned" /\ IsPermutationOf(ret.value, arg))

\* C2: in the sequence reorder_computation_for_overlap returns after
\* decide_global_ordering_comms, a precedes b for every dependency edge
\* a -> b, the synthetic ones between consecutive communication nodes too.
C2_ReturnsDependencyOrder ==
  Finished =>
    /\ ret.status = "returned"
    /\ \A e \in edges : IndexOf(ret.value, e[1]) < IndexOf(ret.value, e[2])

\* C3: the communication nodes are in the returned sequence in the relative
\* order they have in the input, for every input.
C3_ReturnsCommOrder ==
  Finished => (ret.status = "returned" /\ CommNodesOf(ret.value) = CommNodesOf(arg))

\* C4: an input without communication node is returned unchanged, the same
\* nodes in the same order, neither sink_waits nor raise_comms applied to it.
C4_NoCommReturnsInput ==
  (Finished /\ CommNodesOf(arg) = <<>>) =>
    /\ pc = "done"
    /\ ret = Returned(arg)
    /\ result = <<>>

C4_Witness ==
  /\ Finished
  /\ CommNodesOf(arg) = <<>>
  /\ \E i \in DOMAIN arg : IsWait(arg[i]) /\ \E j \in (i + 2)..Len(arg) : arg[j] \in node_users(arg[i])
  /\ arg # tuple_sorted(Range(arg))

\* C5: for every input without communication node the returned sequence is
\* a topologically valid order of the input, each node after all of its
\* predecessors.
C5_NoCommReturnsTopologicalOrder ==
  (Finished /\ CommNodesOf(arg) = <<>>) =>
    (ret.status = "returned" /\ TopologicallyValid(ret.value))

\* --------------------------------------------------- claims on the passes
SinkWaitsOver == pc = "applied" /\ op = "sink_waits"

\* the consumers of w that come after position i of the list s
LaterUsers(s, i) == {j \in (i + 1)..Len(s) : s[j] \in node_users(s[i])}

\* C9: for every input sink_waits returns a sequence in which each WAIT node
\* with a consumer later in the input stands immediately before the earliest
\* such consumer (only WAIT nodes flushed with it in between) and the nodes
\* that are not WAIT nodes keep their input order; [WAIT, X, D] with D the
\* only successor of WAIT gives [X, WAIT, D].
C9_SinksWaitToFirstUse ==
  SinkWaitsOver =>
    /\ ret.status = "returned"
    /\ SelectSeq(ret.value, LAMBDA n : ~IsWait(n)) = SelectSeq(arg, LAMBDA n : ~IsWait(n))
    /\ \A i \in DOMAIN arg :
         (IsWait(arg[i]) /\ LaterUsers(arg, i) # {}) =>
           LET d == arg[Min(LaterUsers(arg, i))]
               pw == IndexOf(ret.value, arg[i])
               pd == IndexOf(ret.value, d)
           IN pw # 0 /\ pw < pd /\ \A k \in (pw + 1)..(pd - 1) : IsWait(ret.value[k])
    /\ (Len(arg) = 3 /\ IsWait(arg[1]) /\ ~IsWait(arg[2]) /\ ~IsWait(arg[3])
          /\ node_users(arg[1]) = {arg[3]})
         => ret.value = <<arg[2], arg[1], arg[3]>>

\* C10: in the output of sink_waits every WAIT node without successor later
\* in the input stands after all nodes that are not WAIT nodes, at the very
\* end, and these WAIT nodes are in ascending name order among themselves.
C10_UnusedWaitsLastInNameOrder ==
  SinkWaitsOver =>
    /\ ret.status = "returned"
    /\ LET out == ret.value
           unused == {arg[i] : i \in {j \in DOMAIN arg : IsWait(arg[j]) /\ LaterUsers(arg, j) = {}}}
       IN /\ \A w \in unused : \A n \in Range(arg) :
               ~IsWait(n) => (IndexOf(out, w) # 0 /\ IndexOf(out, n) < IndexOf(out, w))
          /\ \A v, w \in unused : v < w => IndexOf(out, v) < IndexOf(out, w)

\* C11: sink_waits is idempotent: for every input sequence s,
\* sink_waits(sink_waits(s)) is a sequence and equals sink_waits(s).
C11_SinkWaitsIdempotent ==
  (pc = "applied" /\ op = "sink_waits_twice") =>
    /\ arg.status = "returned"
    /\ ret.status = "returned"
    /\ ret.value = arg.value

RaiseCommsOver == pc = "applied" /\ op = "raise_comms"

\* the positions before i of the list s that hold a node the node s[i]
\* depends on
EarlierDeps(s, i) == {j \in 1..(i - 1) : s[j] \in args(s[i])}

\* C12: for every input raise_comms returns a sequence in which each
\* communication node stands immediately after the latest node before it in
\* the input that it depends on (only communication nodes raised with it in
\* between), or at the front when no node before it is one of its
\* dependencies; [X, COMM, Y] with COMM depending on nothing gives
\* [COMM, X, Y], and with X a dependency of COMM the list is kept.
C12_RaisesCommToLatestDependency ==
  RaiseCommsOver =>
    /\ ret.status = "returned"
    /\ \A i \in DOMAIN arg :
         IsComm(arg[i]) =>
           LET deps == EarlierDeps(arg, i)
               pcomm == IndexOf(ret.value, arg[i])
               pdep == IF deps = {} THEN 0
                       ELSE IndexOf(ret.value, arg[CHOOSE j \in deps : \A k \in deps : k <= j])
           IN pcomm # 0 /\ pdep < pcomm /\ \A k \in (pdep + 1)..(pcomm - 1) : IsComm(ret.value[k])
    /\ (Len(arg) = 3 /\ ~IsComm(arg[1]) /\ IsComm(arg[2]) /\ ~IsComm(arg[3])) =>
         /\ args(arg[2]) = {} => ret.value = <<arg[2], arg[1], arg[3]>>
         /\ arg[1] \in args(arg[2]) => ret.value = arg

\* C13: for every input that is a topologically valid order, at most one
\* communication node is still pending when the reverse scan of raise_comms
\* ends, so that `assert len(cur_comms) <= 1` never fails.
C13_AtMostOneCommPending ==
  (RaiseCommsOver /\ TopologicallyValid(arg)) => ret.status # "AssertionError"

\* ------------------------------------------- claims on the scheduler, II
\* C14: on the chain A -> B -> C (A, C compute of cost 1, B communication of
\* cost 10) reorder_computation_for_overlap returns [A, B, C], whatever the
\* order of the three nodes in the input list.
C14_ChainReturnsABC ==
  Finished =>
    \A a, b, c \in Nodes : IsChain(a, b, c) => ret = Returned(<<a, b, c>>)

\* the scheduler's input is three nodes: the communication nodes c1 and c2,
\* in this order in the input and with no dependency but the synthetic one
\* of c2 on c1, and the compute node x, independent of both
TwoCommsAndOneCompute(c1, c2, x) ==
  /\ Nodes = {c1, c2, x}
  /\ CommNodesOf(arg) = <<c1, c2>>
  /\ kind[x] = "compute"
  /\ edges = {<<c1, c2>>}
  /\ weak_deps[c2] = <<c1>>

\* C15: with two communication nodes C1, C2 (in this input order) that have
\* no ancestors and no descendants and one independent compute node X of
\* runtime cost at most that of C1, the returned sequence has X after C1 and
\* before C2.
C15_ComputeBetweenComms ==
  Finished =>
    \A c1, c2, x \in Nodes :
      (TwoCommsAndOneCompute(c1, c2, x) /\ cost[x] <= cost[c1]) =>
        /\ ret.status = "returned"
        /\ IndexOf(ret.value, c1) < IndexOf(ret.value, x)
        /\ IndexOf(ret.value, x) < IndexOf(ret.value, c2)

\* a full pass of add_all_nodes is over and has scheduled no node of its batch
PassWithoutProgress == pc = "pass" /\ pass = <<>> /\ ~progress

\* C16: whenever a full pass of add_all_nodes schedules none of the nodes of
\* its batch, the call aborts with a fatal error and begins no other pass.
C16_NoProgressAborts ==
  [][PassWithoutProgress => (pc' = "error" /\ ret'.status # "returned")]_vars

\* a cycle of the dependency graph is reachable from node n over predecessor
\* edges, or over successor edges
CycleAbove(n) ==
  \E m \in Nodes :
    /\ m = n \/ <<m, n>> \in TransitiveClosure(edges)
    /\ <<m, m>> \in TransitiveClosure(edges)

CycleBelow(n) ==
  \E m \in Nodes :
    /\ m = n \/ <<n, m>> \in TransitiveClosure(edges)
    /\ <<m, m>> \in TransitiveClosure(edges)

\* C17: when a cycle of the graph is reachable from the queried node,
\* get_ancestors and get_descendants end in a fatal error and return no set:
\* the tables of lines 135-136 never hold a set for such a node.
C17_CycleIsFatal ==
  /\ \A c \in DOMAIN comm_ancestors : ~CycleAbove(c)
  /\ \A c \in DOMAIN comm_descendants : ~CycleBelow(c)

\* C18: on a finite acyclic graph whose edges stay inside the input node set
\* a call of reorder_computation_for_overlap finishes: as long as it has not
\* reached its return it has a next step to take, every add_all_nodes loop
\* empties its batch, and it never ends in another way than by its return.
C18_CallReachesReturn ==
  Acyclic(edges) => (pc = "done" \/ ENABLED Next)

\* ------------------------------------------------ claims on add_all_nodes
Last(s) == s[Len(s)]

\* C20 as stated: every time add_all_nodes schedules a node, that node has
\* the smallest name among all the nodes of its remaining batch that are
\* free at that moment.
C20_SchedulesSmallestFree ==
  [][(pc = "pass" /\ result' # result) =>
       \A m \in all_nodes \cap free_nodes : Last(result') <= m]_vars

\* C20, amended: every node add_all_nodes schedules is a free node of its
\* remaining batch; the first node a pass schedules has the smallest name
\* among all the free nodes of the remaining batch, and every node a pass
\* schedules has the smallest name among the free nodes the pass has not yet
\* gone past (a node that becomes free behind the position of the pass waits
\* for the next pass).
C20_SchedulesSmallestFreeAhead ==
  [][(pc = "pass" /\ result' # result) =>
       /\ Last(result') \in all_nodes \cap free_nodes
       /\ ~progress => \A m \in all_nodes \cap free_nodes : Last(result') <= m
       /\ \A m \in Range(pass) \cap free_nodes : Last(result') <= m]_vars

\* a pass has scheduled a node while a free node of its batch with a smaller
\* name, freed earlier in the same pass, was waiting behind it
C20_Witness ==
  /\ pc = "pass"
  /\ progress
  /\ \E m \in all_nodes \cap free_nodes : m < Last(result) /\ m \notin node_users(Last(result))

\* ----------------------------------------------------- claims on add_node
\* a step of the call that schedules a node (add_node at line 172 or 233)
AddNodeStep == pc \in {"pass", "priority2"} /\ result' # result

\* C21: add_node(node) takes node out of free and out of unused, appends it
\* at the end of result, lowers by one the in-degree of each successor of
\* node that is an input node, and adds to free exactly the successors whose
\* in-degree becomes zero by that; pool membership and in-degree of all
\* other nodes and the prefix of result stay as they are.
C21_AddNodeEffect ==
  [][AddNodeStep =>
       LET node == Last(result') IN
         /\ node \in free_nodes \cap unused_nodes
         /\ result' = Append(result, node)
         /\ unused_nodes' = unused_nodes \ {node}
         /\ DOMAIN indeg' = DOMAIN indeg
         /\ \A u \in Nodes :
              indeg'[u] = IF u \in node_users(node) THEN indeg[u] - 1 ELSE indeg[u]
         /\ free_nodes' \ node_users(node) = (free_nodes \ {node}) \ node_users(node)
         /\ \A u \in node_users(node) :
              u \in free_nodes' <=> (u \in free_nodes \/ indeg'[u] = 0)]_vars

\* a node has been scheduled of whose successors one became free and another,
\* with a predecessor still to come, did not
C21_Witness ==
  /\ pc \in {"pass", "priority2"}
  /\ result # <<>>
  /\ \E u, v \in node_users(Last(result)) :
       /\ u \in free_nodes /\ indeg[u] = 0
       /\ v \notin free_nodes /\ indeg[v] > 0

\* ------------------------------------------------ claims on the main loop
\* the nodes from which one or more edges lead to n
AncestorsOf(n) == {a \in Nodes : <<a, n>> \in TransitiveClosure(edges)}

DescendantsOf(n) == {b \in Nodes : <<n, b>> \in TransitiveClosure(edges)}

\* the main loop is under way or over, result not yet post-processed
InMainLoop ==
  /\ op = "reorder_computation_for_overlap"
  /\ pc \in {"add_all_nodes", "pass", "breakpoint_176", "priority2", "postprocess"}

\* C22: in the result the main loop builds, a communication node is appended
\* only after all of its ancestors, and is the last node its step appends:
\* the initial step appends exactly the ancestors of the first communication
\* node and then that node, and iteration i ends by appending the i-th
\* communication node after its remaining ancestors.
C22_CommAfterAncestorsLastOfStep ==
  InMainLoop =>
    /\ \A k \in DOMAIN result :
         IsComm(result[k]) => AncestorsOf(result[k]) \subseteq {result[j] : j \in 1..(k - 1)}
    /\ BatchDone({"initial"}) =>
         /\ Range(result) = AncestorsOf(CommAt(0)) \cup {CommAt(0)}
         /\ Last(result) = CommAt(0)
    /\ BatchDone({"priority3"}) =>
         /\ Last(result) = CommAt(idx)
         /\ CommNodesOf(result) = SubSeq(comm_nodes, 1, idx + 1)

\* iteration 1 has ended with the second communication node, scheduled
\* after an ancestor that priority 3 had to schedule first
C22_Witness ==
  /\ BatchDone({"priority3"})
  /\ Len(result) = 3
  /\ ~IsComm(result[2])
  /\ result[2] \in AncestorsOf(result[3]) \cap DescendantsOf(result[1])

\* the nodes of result behind node n
ScheduledAfter(n) == {result[j] : j \in (IndexOf(result, n) + 1)..Len(result)}

ScheduledUpTo(n) == {result[j] : j \in 1..IndexOf(result, n)}

\* C23: in iteration i priority 1 schedules every unused node that is an
\* ancestor of the i-th communication node and no descendant of the
\* (i-1)-th, before any node of priority 2 or 3 of that iteration, and the
\* accumulated cost after priority 1 is the cost rolled over from iteration
\* i-1 plus the sum of the costs of those nodes.
C23_Priority1 ==
  BatchDone({"priority1"}) =>
    LET prev == CommAt(idx - 1)
        cur == CommAt(idx)
    IN /\ prev \in Range(result)
       /\ ScheduledAfter(prev) = (AncestorsOf(cur) \ DescendantsOf(prev)) \ ScheduledUpTo(prev)
       /\ total_cost = rolled_over_compute + SumOver(ScheduledAfter(prev), cost)

\* priority 1 of the second iteration is over, with a cost rolled over from
\* the first
C23_Witness ==
  /\ BatchDone({"priority1"})
  /\ idx = 2
  /\ rolled_over_compute > 0
  /\ total_cost = rolled_over_compute

\* a step of priority 2 that schedules a node (line 233)
Priority2Adds == pc = "priority2" /\ result' # result

\* C24: in iteration i priority 2 schedules no node when the accumulated
\* cost after priority 1 is at least the cost of the (i-1)-th communication
\* node; every node it schedules is free at that moment, is no communication
\* node and no descendant of the (i-1)-th communication node; and it
\* schedules no node once the accumulated cost has reached that cost.
C24_Priority2Safe ==
  [][Priority2Adds =>
       LET node == Last(result') IN
         /\ comm_cost = cost[CommAt(idx - 1)]
         /\ group1_cost < comm_cost
         /\ total_cost < comm_cost
         /\ node \in free_nodes
         /\ ~IsComm(node)
         /\ node \notin DescendantsOf(CommAt(idx - 1))]_vars

\* priority 2 has scheduled a node, the accumulated cost has reached the
\* communication cost by that, and a candidate is left
C24_Witness ==
  /\ pc = "priority2"
  /\ total_cost > group1_cost
  /\ total_cost >= comm_cost
  /\ overlappable_nodes # <<>>

\* C25 as stated: priority 2 schedules a candidate only if its cost is at
\* least half of the remaining deficit (the cost of the (i-1)-th
\* communication node minus the accumulated cost) at that moment.
C25_CostAtLeastHalfDeficit ==
  [][Priority2Adds => 2 * cost[Last(result')] >= comm_cost - total_cost]_vars

\* a step of priority 2 that considers a candidate (lines 221-234)
Priority2Considers == pc = "priority2" /\ overlappable_nodes' # overlappable_nodes

\* C25, amended: a candidate that priority 2 considers is scheduled if and
\* only if it is no communication node and the remaining deficit at that
\* moment is greater than half of the candidate's cost (more than half of its
\* compute fits the gap); its cost may be any fraction of the deficit.
C25_DeficitAboveHalfCost ==
  [][Priority2Considers =>
       LET snode == Head(overlappable_nodes) IN
         /\ result' # result =>
              (result' = Append(result, snode) /\ total_cost' = total_cost + cost[snode])
         /\ result' # result <=>
              (~IsComm(snode) /\ 2 * (comm_cost - total_cost) > cost[snode])]_vars

\* priority 2 has scheduled a node of less than half the deficit it found
C25_Witness ==
  /\ pc = "priority2"
  /\ total_cost > group1_cost
  /\ 2 * cost[Last(result)] < comm_cost - (total_cost - cost[Last(result)])

\* the smallest index j with n an ancestor of the j-th communication node,
\* the number of communication nodes when there is none
EarliestCommNeeding(n) ==
  LET js == {j \in 0..(Len(comm_nodes) - 1) : n \in AncestorsOf(CommAt(j))}
  IN IF js = {} THEN Len(comm_nodes) ELSE Min(js)

\* C26: priority 2 considers its candidates in ascending order of the
\* smallest index j such that the candidate is an ancestor of the j-th
\* communication node (ancestors of no communication node last), candidates
\* of equal index in ascending name order.
C26_CandidateOrder ==
  pc = "priority2" =>
    \A a, b \in DOMAIN overlappable_nodes :
      a < b =>
        LET ka == EarliestCommNeeding(overlappable_nodes[a])
            kb == EarliestCommNeeding(overlappable_nodes[b])
        IN ka < kb \/ (ka = kb /\ overlappable_nodes[a] < overlappable_nodes[b])

\* the candidates are two or more, the first needed by a communication node
\* and of a larger name than the second, which no communication node needs
C26_Witness ==
  /\ pc = "priority2"
  /\ Len(overlappable_nodes) >= 2
  /\ overlappable_nodes[1] > overlappable_nodes[2]
  /\ EarliestCommNeeding(overlappable_nodes[1]) < Len(comm_nodes)
  /\ EarliestCommNeeding(overlappable_nodes[2]) = Len(comm_nodes)

\* iteration idx of the main loop is past its priority 2: priority 3 is
\* under way or over
PastPriority2 == InMainLoop /\ phase = "priority3"

\* the nodes priority 2 has scheduled in iteration idx, seen from there: the
\* nodes behind the (idx-1)-th communication node that the idx-th does not
\* need
ScheduledByPriority2 ==
  ScheduledAfter(CommAt(idx - 1)) \ (AncestorsOf(CommAt(idx)) \cup {CommAt(idx)})

\* C27: at the end of iteration i the cost rolled over to iteration i+1 is 0
\* when some descendant of the (i-1)-th communication node is an ancestor of
\* the i-th, and otherwise exactly the sum of the costs of the nodes that
\* priority 2 scheduled in iteration i, cost rolled in from earlier
\* iterations not included.
C27_Rollover ==
  PastPriority2 =>
    rolled_over_compute =
      IF DescendantsOf(CommAt(idx - 1)) \cap AncestorsOf(CommAt(idx)) # {} THEN 0
      ELSE SumOver(ScheduledByPriority2, cost)

\* the second iteration began with a cost rolled in, its priority 2
\* scheduled a node, and the cost of that node alone is rolled over
C27_Witness ==
  /\ PastPriority2
  /\ idx = 2
  /\ group1_cost > 0
  /\ rolled_over_compute > 0
  /\ rolled_over_compute = total_cost - group1_cost

\* ---- the trace output ----

\* a call in either environment: INDUCTOR_COMM_DEBUG is "1" or it is not
InitTrace ==
  /\ GraphInit(Kinds, 1..MaxCost)
  /\ LocalsIdle
  /\ debug \in BOOLEAN
  /\ pc = "idle"
  /\ op = "none"
  /\ arg = NoNode
  /\ ret = {}

SpecTrace == InitTrace /\ [][Next]_vars

\* C28: trace output is emitted only when the debug toggle is set: as long
\* as INDUCTOR_COMM_DEBUG is not "1", a call of
\* reorder_computation_for_overlap writes nothing.
C28_SilentWithoutToggle == ~debug => stdout = {}

\* ---- the three functions that take a list of nodes ----

\* sink_waits and raise_comms are also called on their own, on the list the
\* caller holds
NextFrame == Next \/ CallSinkWaits \/ CallRaiseComms

SpecFrame == InitSched /\ [][NextFrame]_vars

\* the edge leads from a communication node to the next one of the input list
IsSyntheticEdge(e) ==
  LET comms == CommNodesOf(snodes)
  IN \E i \in 1..(Len(comms) - 1) : e = <<comms[i], comms[i + 1]>>

\* C29: reorder_computation_for_overlap, sink_waits and raise_comms leave the
\* input list and every predecessor and successor edge as they are; edges
\* change only where the caller runs decide_global_ordering_comms, which
\* removes none and adds only synthetic edges between consecutive
\* communication nodes.
C29_EdgesAndInputKept ==
  [][/\ snodes' = snodes
     /\ (edges' # edges \/ weak_deps' # weak_deps) =>
          /\ pc = "idle" /\ pc' = "ordered"
          /\ edges \subseteq edges'
          /\ \A e \in edges' \ edges : IsSyntheticEdge(e)]_vars

\* a call has come to its end on a graph that holds data edges and synthetic
\* edges, after the passes of add_all_nodes and after sink_waits
C29_Witness ==
  /\ pc \in {"done", "error"}
  /\ op = "reorder_computation_for_overlap"
  /\ Len(result) = Len(snodes)
  /\ \E e \in edges : IsSyntheticEdge(e)
  /\ \E e \in edges : ~IsSyntheticEdge(e)

\* C30: a call of reorder_computation_for_overlap on an input with a
\* communication node never blocks or suspends: from its start to its return
\* or abort it is never stopped waiting for the debugger or for input.
C30_NeverBlocks ==
  CommNodesOf(snodes) # <<>> => pc \notin {"breakpoint_143", "breakpoint_176"}

\* ---- the pools of the main scheduler ----

\* the predecessors of n inside the input that are not in result yet
PendingPreds(n) == (inverse_users(n) \cap Range(snodes)) \ Range(result)

\* C31: in every state of the main scheduler free_nodes is exactly the set
\* of unused nodes all of whose predecessors inside the input are in result,
\* and indeg[n] is the number of predecessors of n inside the input that are
\* not in result yet, never negative.
C31_FreeAndIndeg ==
  InMainLoop =>
    /\ free_nodes = {n \in unused_nodes : PendingPreds(n) = {}}
    /\ \A n \in Range(snodes) :
         /\ indeg[n] = Cardinality(PendingPreds(n))
         /\ indeg[n] >= 0

\* some node was made free by the scheduling of its last predecessor while
\* another one still waits for a predecessor
C31_Witness ==
  /\ InMainLoop
  /\ \E n \in free_nodes : inverse_users(n) # {}
  /\ \E n \in unused_nodes : indeg[n] > 0

\* C32: in every state of the main scheduler result holds no node twice,
\* result and unused_nodes are disjoint and together they are the input
\* nodes; when the final add_all_nodes(unused_nodes) has finished,
\* unused_nodes and free_nodes are empty and result holds every input node
\* exactly once.
C32_ResultAndUnusedPartition ==
  InMainLoop =>
    /\ IsInjective(result)
    /\ Range(result) \cap unused_nodes = {}
    /\ Range(result) \cup unused_nodes = Range(snodes)
    /\ pc = "postprocess" =>
         /\ unused_nodes = {}
         /\ free_nodes = {}
         /\ Len(result) = Len(snodes)

\* the final add_all_nodes has finished on an input of three nodes, some of
\* them scheduled by it
C32_Witness ==
  /\ InMainLoop
  /\ pc = "postprocess"
  /\ Len(snodes) = MaxNodes
  /\ CommNodesOf(snodes) # snodes
  /\ result # snodes

\* C33: at every step of the main scheduler, before the post-processing,
\* result is a topologically valid prefix: every predecessor inside the
\* input of a node in result stands earlier in result.
C33_ResultIsTopologicalPrefix ==
  InMainLoop =>
    \A i \in DOMAIN result :
      inverse_users(result[i]) \cap Range(snodes) \subseteq {result[j] : j \in 1..(i - 1)}

\* in the loop over the communication nodes a node stands in result behind
\* a predecessor whose name is greater, and priority 2 has scheduled a node
\* that no communication node needs
C33_Witness ==
  /\ InMainLoop
  /\ phase # "final"
  /\ \E i \in DOMAIN result : \E p \in inverse_users(result[i]) : p > result[i]
  /\ \E i \in DOMAIN result : ~IsComm(result[i]) /\ \A c \in Range(comm_nodes) : result[i] \notin comm_ancestors[c]

\* ---- the outcome of the two passes ----

Window(i) ==
  LET a == IndexOf(result, comm_nodes[i - 1])
      b == IndexOf(result, comm_nodes[i])
  IN IF a = 0 THEN {} ELSE (a + 1)..(IF b = 0 THEN Len(result) ELSE b - 1)

\* C35: in the result built by the main loop, among the nodes placed between
\* the (i-1)-th and the i-th communication node no descendant of the (i-1)-th
\* communication node stands before a node that is not one of its
\* descendants.
C35_DependentWorkLastInWindow ==
  InMainLoop =>
    \A i \in 2..Len(comm_nodes) :
      \A j, k \in Window(i) :
        (j < k /\ result[j] \in DescendantsOf(comm_nodes[i - 1]))
          => result[k] \in DescendantsOf(comm_nodes[i - 1])

\* a finished window holds a node that does not descend from the outstanding
\* communication node and, behind it, one that does
C35_Witness ==
  /\ InMainLoop
  /\ \E i \in 2..Len(comm_nodes) :
       /\ comm_nodes[i] \in Range(result)
       /\ \E j, k \in Window(i) :
            /\ j < k
            /\ result[j] \notin DescendantsOf(comm_nodes[i - 1])
            /\ result[k] \in DescendantsOf(comm_nodes[i - 1])

\* a comes before b in the list s
Before(s, a, b) == IndexOf(s, a) < IndexOf(s, b)

\* C36: whenever raise_comms returns, its output is a permutation of its
\* input in which the communication nodes keep their input order among
\* themselves, the other nodes keep theirs, and no communication node that
\* came before another kind of node in the input comes after it in the
\* output.
C36_RaiseCommsKeepsOrders ==
  (RaiseCommsOver /\ ret.status = "returned") =>
    /\ Len(ret.value) = Len(arg)
    /\ Range(ret.value) = Range(arg)
    /\ \A a, b \in Range(arg) :
         Before(arg, a, b) =>
           /\ (IsComm(a) = IsComm(b)) => Before(ret.value, a, b)
           /\ (IsComm(a) /\ ~IsComm(b)) => Before(ret.value, a, b)

\* raise_comms has returned a list in which a communication node stands
\* ahead of a node it came behind, another communication node being there
C36_Witness ==
  /\ RaiseCommsOver
  /\ ret.status = "returned"
  /\ \E a, b, c \in Range(arg) :
       /\ a # c /\ IsComm(a) /\ IsComm(c) /\ ~IsComm(b)
       /\ Before(arg, b, a)
       /\ Before(ret.value, a, b)


====
